---- MODULE Spec2Model ----
(***************************************************************************)
(* Model of catwatch/blueprints/user/models.py: the User model, its        *)
(* lookups, the last-admin safeguard, the two kinds of signed tokens and   *)
(* the sign-in activity tracking.                                          *)
(*                                                                         *)
(* Python values: a str is a sequence of one-character strings; None (for  *)
(* a str-valued column or argument) is the value None below, which is no   *)
(* string of characters; an absent user (query result None) is NoUser.     *)
(***************************************************************************)
EXTENDS Naturals, Integers, Sequences, FiniteSets, TLC

VARIABLES users, clock, call, tokens, req, nextSalt, log

vars == <<users, clock, call, tokens, req, nextSalt, log>>

\* ------------------------------------------------------------------ bounds
MaxUsers == 3
MaxSalt == 3
MaxTokens == 1
MaxClock == 2
MaxSignIns == 3
MaxResolves == 2

\* ------------------------------------------------------- Python str values
None == <<"None">>

EmptyStr == <<>>

\* The strings requests supply as usernames, e-mail addresses, identities
\* and passwords.
Strings == {<<"b", "o", "b">>, <<"B", "o", "b">>, <<"B", "O", "B">>, <<"a", "@", "x">>}

\* str.lower(), character by character.
LowerChar(c) ==
  CASE c = "A" -> "a"
    [] c = "B" -> "b"
    [] c = "O" -> "o"
    [] OTHER -> c

Lower(s) == [i \in DOMAIN s |-> LowerChar(s[i])]

\* ------------------------------------------------------------ the users table
ROLE == {"guest", "member", "admin"}

NoUser == 0

NoHash == [plain |-> EmptyStr, salt |-> 0, rounds |-> 0]

Ids(store) == DOMAIN store

\* A row of the users table with the column defaults of the model class; a
\* NULL date is -1, before every value of the clock.
Row(role, active, username, email, password) ==
  [role |-> role, active |-> active, username |-> username, email |-> email,
   password |-> password, sign_in_count |-> 0,
   current_sign_in_on |-> -1, current_sign_in_ip |-> None,
   last_sign_in_on |-> -1, last_sign_in_ip |-> None]

\* A distinct e-mail address for the i-th row of a store drawn by Init.
DefaultEmail(i) == [k \in 1..i |-> "x"]

NoCall == [op |-> "none"]

\* ------------------------------------------------------------ is_last_admin
\* The values of new_active. The edit form sends the field only when the box
\* is ticked, so a request passes None to deactivate and a true value
\* otherwise; None is the value line 146 tests for.
NewActiveVals == {"None", "True"}

Deactivates(new_active) == new_active = "None"

is_changing_roles(user, new_role) == user.role = "admin" /\ new_role # "admin"

is_changing_active(user, new_active) == user.active = TRUE /\ new_active = "None"

admin_count(store) == Cardinality({i \in Ids(store) : store[i].role = "admin"})

\* The Python expression `User.is_active is True`: User.is_active is the
\* method defined on the class, so the identity test is the constant False
\* and the query is filter(False), which selects no row.
UserIsActiveIsTrue == FALSE

active_count(store) == Cardinality({i \in Ids(store) : UserIsActiveIsTrue})

\* The mutant: both counts must be 1.
Verdict_both(engaged, admins, actives) == engaged /\ (admins = 1 /\ actives = 1)

Verdict(engaged, admins, actives) == engaged /\ (admins = 1 \/ actives = 1)

is_last_admin(store, u, new_role, new_active) ==
  Verdict(is_changing_roles(store[u], new_role)
            \/ is_changing_active(store[u], new_active),
          admin_count(store), active_count(store))

\* What the store really holds, for stating the claims.
IsActiveAdmin(store, i) == store[i].role = "admin" /\ store[i].active = TRUE

HasActiveAdmin(store) == \E i \in Ids(store) : IsActiveAdmin(store, i)

TrueActiveCount(store) == Cardinality({i \in Ids(store) : store[i].active = TRUE})

\* ---------------------------------------------------------------- SpecAdmin
AdminStores ==
  UNION {[1..n -> {Row(r, a, None, EmptyStr, NoHash) : r \in ROLE, a \in BOOLEAN}]
           : n \in 1..MaxUsers}

WithEmails(store) == [i \in DOMAIN store |-> [store[i] EXCEPT !.email = DefaultEmail(i)]]

InitCommon ==
  /\ clock = 0
  /\ call = NoCall
  /\ tokens = {}
  /\ req = <<>>
  /\ nextSalt = 1
  /\ log = <<>>

InitAdmin ==
  /\ users \in {WithEmails(s) : s \in AdminStores}
  /\ InitCommon

\* A call of User.is_last_admin(user, new_role, new_active); it only reads.
IsLastAdmin(u, new_role, new_active) ==
  /\ call' = [op |-> "is_last_admin", user |-> u, new_role |-> new_role,
              new_active |-> new_active,
              ret |-> is_last_admin(users, u, new_role, new_active)]
  /\ UNCHANGED <<users, clock, tokens, req, nextSalt, log>>

\* The admin edit request: the change is committed only when is_last_admin
\* returned False for it.
AdminEdit(u, new_role, new_active) ==
  /\ ~is_last_admin(users, u, new_role, new_active)
  /\ users' = [users EXCEPT ![u].role = new_role,
                            ![u].active = (new_active = "True")]
  /\ call' = NoCall
  /\ UNCHANGED <<clock, tokens, req, nextSalt, log>>

NextAdmin ==
  \/ \E u \in Ids(users), r \in ROLE, a \in NewActiveVals : IsLastAdmin(u, r, a)
  \/ \E u \in Ids(users), r \in ROLE, a \in NewActiveVals : AdminEdit(u, r, a)

SpecAdmin == InitAdmin /\ [][NextAdmin]_vars

\* ----------------------------------------------------------- SpecAdminCalls
\* Calls of is_last_admin with every value its interface admits for
\* new_active: the docstring types it bool, and None is what line 146 tests.
DocumentedActiveVals == {"None", "True", "False"}

IndicatesDeactivation(new_active) == new_active \in {"None", "False"}

NextAdminCalls ==
  \E u \in Ids(users), r \in ROLE, a \in DocumentedActiveVals : IsLastAdmin(u, r, a)

SpecAdminCalls == InitAdmin /\ [][NextAdminCalls]_vars

\* ----------------------------------------------------------------- SpecRace
\* Two edit requests run concurrently against the shared store. Each loads
\* its user, runs is_last_admin (two count queries, one after the other) and
\* commits the change when the verdict is False. Nothing in is_last_admin
\* locks the rows it counts.
Requests == {1, 2}

RaceStores ==
  {WithEmails(s) : s \in {t \in AdminStores :
     /\ Len(t) >= 2
     /\ {i \in DOMAIN t : t[i].role = "admin"} = {1, 2}
     /\ t[1].active /\ t[2].active}}

NewRequest(target, new_role, new_active) ==
  [pc |-> "load", target |-> target, new_role |-> new_role,
   new_active |-> new_active, role |-> "guest", active |-> FALSE,
   admins |-> 0, actives |-> 0, committed |-> FALSE]

InitRace ==
  /\ users \in RaceStores
  /\ clock = 0
  /\ call = NoCall
  /\ tokens = {}
  /\ req \in {[r \in Requests |-> NewRequest(r, nr[r], na[r])] :
               nr \in [Requests -> ROLE \ {"admin"}],
               na \in [Requests -> NewActiveVals]}
  /\ nextSalt = 1
  /\ log = <<>>

\* user = User.query.get(id), then the two conditions of lines 145-146; when
\* neither holds is_last_admin returns False without a query.
ReqLoad(r) ==
  /\ req[r].pc = "load"
  /\ LET user == users[req[r].target]
         engaged == is_changing_roles(user, req[r].new_role)
                      \/ is_changing_active(user, req[r].new_active)
     IN req' = [req EXCEPT ![r].role = user.role, ![r].active = user.active,
                           ![r].pc = IF engaged THEN "count_admins" ELSE "commit"]
  /\ UNCHANGED <<users, clock, call, tokens, nextSalt, log>>

ReqCountAdmins(r) ==
  /\ req[r].pc = "count_admins"
  /\ req' = [req EXCEPT ![r].admins = admin_count(users), ![r].pc = "count_actives"]
  /\ UNCHANGED <<users, clock, call, tokens, nextSalt, log>>

ReqCountActives(r) ==
  /\ req[r].pc = "count_actives"
  /\ req' = [req EXCEPT ![r].actives = active_count(users), ![r].pc = "decide"]
  /\ UNCHANGED <<users, clock, call, tokens, nextSalt, log>>

\* The verdict of is_last_admin from the two counts read; True rejects the
\* request.
ReqDecide(r) ==
  /\ req[r].pc = "decide"
  /\ req' = [req EXCEPT ![r].pc =
               IF Verdict(TRUE, req[r].admins, req[r].actives)
               THEN "rejected" ELSE "commit"]
  /\ UNCHANGED <<users, clock, call, tokens, nextSalt, log>>

ReqCommit(r) ==
  /\ req[r].pc = "commit"
  /\ users' = [users EXCEPT ![req[r].target].role = req[r].new_role,
                            ![req[r].target].active = (req[r].new_active = "True")]
  /\ req' = [req EXCEPT ![r].pc = "done", ![r].committed = TRUE]
  /\ UNCHANGED <<clock, call, tokens, nextSalt, log>>

NextRace ==
  \/ \E r \in Requests : ReqLoad(r)
  \/ \E r \in Requests : ReqCountAdmins(r)
  \/ \E r \in Requests : ReqCountActives(r)
  \/ \E r \in Requests : ReqDecide(r)
  \/ \E r \in Requests : ReqCommit(r)

SpecRace == InitRace /\ [][NextRace]_vars

\* ----------------------------------------------------------------- SpecAuth
\* bcrypt.generate_password_hash(plaintext, 8): a salted hash. The salt is
\* drawn fresh by every call and is modelled by the counter nextSalt, so two
\* calls never produce the same hash.
BcryptRounds == 8

\* bcrypt hashes the first 72 bytes of the password and ignores the rest.
BcryptMaxBytes == 72

Truncated(plaintext) ==
  IF Len(plaintext) > BcryptMaxBytes THEN SubSeq(plaintext, 1, BcryptMaxBytes)
  ELSE plaintext

generate_password_hash(plaintext, rounds, salt) ==
  [plain |-> Truncated(plaintext), salt |-> salt, rounds |-> rounds]

encrypt_password(plaintext_password, salt) ==
  IF plaintext_password # EmptyStr /\ plaintext_password # None
  THEN generate_password_hash(plaintext_password, BcryptRounds, salt)
  ELSE NoHash

\* md5(...).hexdigest() of a password hash; distinct hashes have distinct
\* digests.
md5(password) == <<"md5", password.plain, password.salt, password.rounds>>

\* The mutant: the digest does not depend on the password.
get_auth_token_unbound(store, u) == <<u, md5(NoHash)>>

\* The data get_auth_token signs: [str(self.id), md5(self.password).hexdigest()].
get_auth_token(store, u) == <<u, md5(store[u].password)>>

\* The token loader of the login layer: the identity named by the token when
\* the digest of its current password hash equals the embedded digest.
load_auth_token(store, data) ==
  IF /\ data[1] \in Ids(store)
     /\ store[data[1]].password # NoHash
     /\ md5(store[data[1]].password) = data[2]
  THEN data[1] ELSE NoUser

AuthStores ==
  UNION {[1..n -> {Row("member", TRUE, None, EmptyStr, NoHash)}] : n \in 1..MaxUsers}

InitAuth ==
  /\ users \in {WithEmails(s) : s \in AuthStores}
  /\ InitCommon

\* user.password = User.encrypt_password(plaintext)
ChangePassword(u, plaintext) ==
  /\ nextSalt <= MaxSalt
  /\ users' = [users EXCEPT ![u].password = encrypt_password(plaintext, nextSalt)]
  /\ nextSalt' = nextSalt + 1
  /\ tokens' = {IF t.kind = "auth" /\ t.issuer = u
                THEN [t EXCEPT !.stale = TRUE] ELSE t : t \in tokens}
  /\ call' = NoCall
  /\ UNCHANGED <<clock, req, log>>

\* u.get_auth_token(); md5(None) raises TypeError when no password is set.
\* issuer, issued_with and stale record the history of the token and are not
\* part of it.
GetAuthToken(u) ==
  /\ users[u].password # NoHash
  /\ Cardinality(tokens) < MaxTokens
  /\ tokens' = tokens \cup {[kind |-> "auth", data |-> get_auth_token(users, u),
                             issuer |-> u, issued_with |-> users[u].password,
                             stale |-> FALSE]}
  /\ call' = NoCall
  /\ UNCHANGED <<users, clock, req, nextSalt, log>>

LoadAuthToken(t) ==
  /\ t.kind = "auth"
  /\ call' = [op |-> "load_auth_token", token |-> t,
              ret |-> load_auth_token(users, t.data)]
  /\ UNCHANGED <<users, clock, tokens, req, nextSalt, log>>

NextAuth ==
  \/ \E u \in Ids(users), p \in Strings \cup {EmptyStr} : ChangePassword(u, p)
  \/ \E u \in Ids(users) : GetAuthToken(u)
  \/ \E t \in tokens : LoadAuthToken(t)

SpecAuth == InitAuth /\ [][NextAuth]_vars

\* ------------------------------------------------------------- SpecPassword
\* bcrypt.check_password_hash(pw_hash, password): the password is hashed
\* with the salt of pw_hash and the results are compared. hashpw raises for
\* a pw_hash that is None or holds no salt; nothing catches it.
check_password_hash(pw_hash, password) ==
  IF pw_hash = NoHash THEN "raise"
  ELSE IF generate_password_hash(password, pw_hash.rounds, pw_hash.salt) = pw_hash
       THEN "True" ELSE "False"

authenticated(user, with_password, password) ==
  IF with_password THEN check_password_hash(user.password, password) ELSE "True"

\* Two passwords of 73 characters that differ in the last one only.
LongPassword(last) == [i \in 1..(BcryptMaxBytes + 1) |->
                         IF i <= BcryptMaxBytes THEN "p" ELSE last]

Passwords ==
  {EmptyStr, <<"b", "o", "b">>, <<"B", "o", "b">>, LongPassword("1"), LongPassword("2")}

\* The stores of identities constructed with the passwords of log: log[i] is
\* the password keyword given to the constructor of identity i.
InitPassword ==
  /\ log \in UNION {[1..n -> Passwords] : n \in 1..MaxUsers}
  /\ users = [i \in DOMAIN log |->
                Row("member", TRUE, None, DefaultEmail(i), encrypt_password(log[i], i))]
  /\ nextSalt = Len(log) + 1
  /\ clock = 0
  /\ call = NoCall
  /\ tokens = {}
  /\ req = <<>>

\* user.authenticated(with_password, password)
Authenticated(u, with_password, password) ==
  /\ call' = [op |-> "authenticated", user |-> u, with_password |-> with_password,
              password |-> password,
              ret |-> authenticated(users[u], with_password, password)]
  /\ UNCHANGED <<users, clock, tokens, req, nextSalt, log>>

NextPassword ==
  \E u \in Ids(users), w \in BOOLEAN, x \in Passwords : Authenticated(u, w, x)

SpecPassword == InitPassword /\ [][NextPassword]_vars

\* --------------------------------------------------------------- SpecLookup
\* SQL comparison `column = value` as SQLAlchemy renders it: comparing with
\* None renders IS NULL, and a NULL column equals no value.
SqlEq(column, value) ==
  IF value = None THEN column = None ELSE column # None /\ column = value

Matching(store, identity) ==
  {i \in Ids(store) : SqlEq(store[i].email, identity)
                        \/ SqlEq(store[i].username, identity)}

\* The rows .first() can return: the query has no ORDER BY, so any matching
\* row, and None when there is none.
find_by_identity(store, identity) ==
  IF Matching(store, identity) = {} THEN {NoUser} ELSE Matching(store, identity)

\* The mutant: the username is stored as given.
init_username_as_given(username) == username

\* The username the constructor stores.
init_username(username) == IF username # None THEN Lower(username) ELSE None

\* User(username=..., email=..., password=...) added and committed. The
\* unique indexes on username and email reject a duplicate.
CreateUser(username, email, password) ==
  /\ Len(users) < MaxUsers
  /\ \A i \in Ids(users) :
       /\ users[i].email # email
       /\ init_username(username) = None \/ users[i].username # init_username(username)
  /\ users' = Append(users, Row("member", TRUE, init_username(username), email,
                                encrypt_password(password, nextSalt)))
  /\ nextSalt' = nextSalt + 1
  /\ call' = [op |-> "create", username |-> username, email |-> email,
              ret |-> Len(users) + 1]
  /\ UNCHANGED <<clock, tokens, req, log>>

\* The same, when a unique index rejects the row: the commit raises
\* IntegrityError and nothing is stored.
CreateUserRejected(username, email, password) ==
  /\ \E i \in Ids(users) :
       \/ users[i].email = email
       \/ init_username(username) # None /\ users[i].username = init_username(username)
  /\ call' = [op |-> "create", username |-> username, email |-> email,
              ret |-> NoUser]
  /\ UNCHANGED <<users, clock, tokens, req, nextSalt, log>>

FindByIdentity(identity) ==
  /\ \E r \in find_by_identity(users, identity) :
       call' = [op |-> "find_by_identity", identity |-> identity, ret |-> r]
  /\ UNCHANGED <<users, clock, tokens, req, nextSalt, log>>

InitLookup ==
  /\ users = <<>>
  /\ InitCommon

NextLookup ==
  \/ \E n \in Strings \cup {None}, e \in Strings : CreateUser(n, e, EmptyStr)
  \/ \E n \in Strings \cup {None}, e \in Strings : CreateUserRejected(n, e, EmptyStr)
  \/ \E i \in Strings \cup {None} : FindByIdentity(i)

SpecLookup == InitLookup /\ [][NextLookup]_vars

\* ---------------------------------------------------------------- SpecToken
\* A TimedJSONWebSignatureSerializer token: the signed payload and the
\* expiry time of the header. form is "garbage" for a string that is no
\* token at all; sig is "bad" for a token not signed with SECRET_KEY.
DefaultExpiration == 3600

Expirations == {1, DefaultExpiration}

dumps(payload, expires_in, now) ==
  [form |-> "jws", sig |-> "good", exp |-> now + expires_in, payload |-> payload]

\* loads(): <<TRUE, payload>>, or <<FALSE, payload>> when it raises
\* (BadSignature, BadPayload, SignatureExpired).
loads(token, now) ==
  <<token.form = "jws" /\ token.sig = "good" /\ ~(token.exp < now), token.payload>>

serialize_token(store, u, expiration, now) ==
  dumps([type |-> "dict", user_email |-> store[u].email], expiration, now)

\* The values deserialize_token can return.
deserialize_token(store, token, now) ==
  IF ~loads(token, now)[1] THEN {NoUser}
  ELSE IF loads(token, now)[2].type # "dict" THEN {NoUser}
  ELSE find_by_identity(store, loads(token, now)[2].user_email)

\* Tokens that were not issued by serialize_token: a string that is no
\* token, and tokens signed with the key whose payload is a dict without
\* 'user_email' or is not a dict.
ForeignTokens(now) ==
  {[form |-> "garbage", sig |-> "bad", exp |-> now,
    payload |-> [type |-> "list", user_email |-> None]],
   dumps([type |-> "dict", user_email |-> None], 1, now),
   dumps([type |-> "list", user_email |-> None], 1, now)}

Tampered(token) == [token EXCEPT !.sig = "bad"]

ActionTokens == {t \in tokens : t.kind = "action"}

\* The e-mail addresses and usernames of the identities that hold tokens.
TokenStrings == {<<"b", "o", "b">>, <<"a", "@", "x">>}

TokenInputs ==
  {t.tok : t \in ActionTokens} \cup {Tampered(t.tok) : t \in ActionTokens}
    \cup ForeignTokens(clock)

\* u.serialize_token(expiration). issuer and iat record the history of the
\* token and are not part of it.
SerializeToken(u, expiration) ==
  /\ Cardinality(tokens) < MaxTokens
  /\ tokens' = tokens \cup {[kind |-> "action", issuer |-> u, iat |-> clock,
                             tok |-> serialize_token(users, u, expiration, clock)]}
  /\ call' = NoCall
  /\ UNCHANGED <<users, clock, req, nextSalt, log>>

DeserializeToken(token) ==
  /\ \E r \in deserialize_token(users, token, clock) :
       call' = [op |-> "deserialize_token", token |-> token, ret |-> r]
  /\ UNCHANGED <<users, clock, tokens, req, nextSalt, log>>

\* The clock of time.time() and utcnow() advances.
Tick ==
  /\ clock < MaxClock
  /\ clock' = clock + 1
  /\ call' = NoCall
  /\ UNCHANGED <<users, tokens, req, nextSalt, log>>

InitToken ==
  /\ users = <<>>
  /\ InitCommon

NextToken ==
  \/ \E n \in TokenStrings \cup {None}, e \in TokenStrings : CreateUser(n, e, EmptyStr)
  \/ \E u \in Ids(users), x \in Expirations : SerializeToken(u, x)
  \/ \E t \in TokenInputs : DeserializeToken(t)
  \/ Tick

SpecToken == InitToken /\ [][NextToken]_vars

\* ---------------------------------------------------------------- SpecReuse
\* The same action token presented more than once, with password changes and
\* new identities in between. log records the resolutions made, in order.
ResolveToken(token) ==
  /\ Len(log) < MaxResolves
  /\ \E r \in deserialize_token(users, token, clock) :
       /\ call' = [op |-> "deserialize_token", token |-> token, ret |-> r]
       /\ log' = Append(log, [token |-> token, on |-> clock, ret |-> r])
  /\ UNCHANGED <<users, clock, tokens, req, nextSalt>>

NextReuse ==
  \/ \E n \in TokenStrings \cup {None}, e \in TokenStrings : CreateUser(n, e, EmptyStr)
  \/ \E u \in Ids(users), x \in Expirations : SerializeToken(u, x)
  \/ \E u \in Ids(users), p \in TokenStrings : ChangePassword(u, p)
  \/ \E t \in ActionTokens : ResolveToken(t.tok)
  \/ Tick

SpecReuse == InitToken /\ [][NextReuse]_vars

\* ------------------------------------------------------------- SpecActivity
IPs == {<<"1">>, <<"2">>}

\* The mutant: the current values are overwritten before they are shifted.
update_activity_tracking_shift_last(user, ip_address, now) ==
  LET counted == [user EXCEPT !.sign_in_count = @ + 1]
      current == [counted EXCEPT !.current_sign_in_on = now,
                                 !.current_sign_in_ip = ip_address]
  IN [current EXCEPT !.last_sign_in_on = current.current_sign_in_on,
                     !.last_sign_in_ip = current.current_sign_in_ip]

\* The assignments of lines 221-227, in their order.
update_activity_tracking(user, ip_address, now) ==
  LET counted == [user EXCEPT !.sign_in_count = @ + 1]
      shifted == [counted EXCEPT !.last_sign_in_on = counted.current_sign_in_on,
                                 !.last_sign_in_ip = counted.current_sign_in_ip]
  IN [shifted EXCEPT !.current_sign_in_on = now,
                     !.current_sign_in_ip = ip_address]

\* user.update_activity_tracking(ip_address) with its commit. log records
\* the calls made, in order.
UpdateActivityTracking(u, ip_address) ==
  /\ Len(log) < MaxSignIns
  /\ users' = [users EXCEPT ![u] = update_activity_tracking(@, ip_address, clock)]
  /\ log' = Append(log, [user |-> u, on |-> clock, ip |-> ip_address])
  /\ call' = NoCall
  /\ UNCHANGED <<clock, tokens, req, nextSalt>>

InitActivity ==
  /\ users \in {WithEmails(s) : s \in AuthStores}
  /\ InitCommon

NextActivity ==
  \/ \E u \in Ids(users), ip \in IPs : UpdateActivityTracking(u, ip)
  \/ Tick

SpecActivity == InitActivity /\ [][NextActivity]_vars

\* --------------------------------------------------------- SpecSignInRace
\* Two sign-in requests for the same identity. Each loads its own copy of
\* the row, runs the assignments of update_activity_tracking on the copy and
\* commits. The commit writes the columns whose value differs from the one
\* loaded, as values: sign_in_count is written as the number computed from
\* the copy, not as an increment in the store.
SignInTarget == 1

TrackedColumns ==
  {"sign_in_count", "current_sign_in_on", "current_sign_in_ip",
   "last_sign_in_on", "last_sign_in_ip"}

Flushed(row, loaded, copy) ==
  [c \in DOMAIN row |->
     IF c \in TrackedColumns /\ copy[c] # loaded[c] THEN copy[c] ELSE row[c]]

InitSignInRace ==
  /\ users \in {WithEmails(s) : s \in AuthStores}
  /\ clock = 0
  /\ call = NoCall
  /\ tokens = {}
  /\ req \in {[r \in Requests |-> [pc |-> "load", ip |-> ips[r],
                                   loaded |-> users[SignInTarget],
                                   copy |-> users[SignInTarget]]] :
               ips \in [Requests -> IPs]}
  /\ nextSalt = 1
  /\ log = <<>>

\* The request loads the identity that signs in.
SignInLoad(r) ==
  /\ req[r].pc = "load"
  /\ req' = [req EXCEPT ![r].loaded = users[SignInTarget],
                        ![r].copy = users[SignInTarget],
                        ![r].pc = "modify"]
  /\ UNCHANGED <<users, clock, call, tokens, nextSalt, log>>

\* Lines 221-227 on the request's copy.
SignInModify(r) ==
  /\ req[r].pc = "modify"
  /\ req' = [req EXCEPT ![r].copy = update_activity_tracking(@, req[r].ip, clock),
                        ![r].pc = "commit"]
  /\ UNCHANGED <<users, clock, call, tokens, nextSalt, log>>

\* Line 229. log records the sign-ins in the order of their commits.
SignInCommit(r) ==
  /\ req[r].pc = "commit"
  /\ users' = [users EXCEPT ![SignInTarget] = Flushed(@, req[r].loaded, req[r].copy)]
  /\ log' = Append(log, [user |-> SignInTarget, on |-> req[r].copy.current_sign_in_on,
                         ip |-> req[r].copy.current_sign_in_ip])
  /\ req' = [req EXCEPT ![r].pc = "done"]
  /\ call' = NoCall
  /\ UNCHANGED <<clock, tokens, nextSalt>>

NextSignInRace ==
  \/ \E r \in Requests : SignInLoad(r)
  \/ \E r \in Requests : SignInModify(r)
  \/ \E r \in Requests : SignInCommit(r)
  \/ Tick

SpecSignInRace == InitSignInRace /\ [][NextSignInRace]_vars

\* ------------------------------------------------- claims about is_last_admin
Admins(store) == {i \in Ids(store) : store[i].role = "admin"}

ActiveAdmins(store) == {i \in Ids(store) : IsActiveAdmin(store, i)}

\* C1: once the store holds an active admin, every later state reached by
\* role and activation changes gated by is_last_admin still holds one.
C1_ActiveAdminRemains == [][HasActiveAdmin(users) => HasActiveAdmin(users')]_vars

\* C3: when the user is the only active admin of the store, is_last_admin
\* returns True for every new_active that indicates deactivation (the role
\* staying admin).
C3_DeactivatingLastActiveAdminForbidden ==
  (/\ call.op = "is_last_admin"
   /\ call.new_role = "admin"
   /\ Deactivates(call.new_active)
   /\ ActiveAdmins(users) = {call.user})
    => call.ret = TRUE

\* C4: is_last_admin(a, 'member', True) is True when a is the only admin and
\* is active, and False on either admin when there are exactly two admins,
\* both active.
C4_DemotionOfOneOrTwoAdmins ==
  (/\ call.op = "is_last_admin"
   /\ call.new_role = "member"
   /\ call.new_active = "True")
    => /\ (Admins(users) = {call.user} /\ users[call.user].active = TRUE)
            => call.ret = TRUE
       /\ (/\ Cardinality(Admins(users)) = 2
           /\ call.user \in Admins(users)
           /\ \A i \in Admins(users) : users[i].active = TRUE)
            => call.ret = FALSE

C4_Witness ==
  /\ call.op = "is_last_admin"
  /\ call.new_role = "member"
  /\ call.new_active = "True"
  /\ Admins(users) = {call.user}
  /\ users[call.user].active = TRUE
  /\ Cardinality(Ids(users)) > 1
  /\ call.ret = TRUE

\* C5: when an admin is changed to a non-admin role or an active identity is
\* deactivated, is_last_admin returns True exactly when the number of admins
\* or the number of active identities in the store is 1.
C5_EitherCountOfOneForbids ==
  (/\ call.op = "is_last_admin"
   /\ \/ (users[call.user].role = "admin" /\ call.new_role # "admin")
      \/ (users[call.user].active = TRUE /\ Deactivates(call.new_active)))
    => call.ret = (Cardinality(Admins(users)) = 1 \/ TrueActiveCount(users) = 1)

\* C2: of two concurrent demotions of the two admins of a two-admin store,
\* each gated by is_last_admin, at most one commits.
C2_AtMostOneDemotionCommits ==
  Cardinality({r \in DOMAIN req : req[r].committed}) <= 1

\* C6: an auth token issued for u resolves to u exactly while u's password
\* hash is the one the token was issued with, and no token issued before a
\* password change of u resolves after it.
C6_AuthTokenBoundToPassword ==
  \A t \in tokens : t.kind = "auth" =>
    /\ (load_auth_token(users, t.data) = t.issuer)
         <=> (users[t.issuer].password = t.issued_with)
    /\ t.stale => load_auth_token(users, t.data) = NoUser
    /\ (call.op = "load_auth_token" /\ call.token = t)
         => call.ret = load_auth_token(users, t.data)

C6_Witness ==
  /\ call.op = "load_auth_token"
  /\ call.token.stale
  /\ call.ret = NoUser
  /\ users[call.token.issuer].password # NoHash
  /\ users[call.token.issuer].password.plain = call.token.issued_with.plain

\* C7: a token issued by u.serialize_token(ttl) deserializes to u at every
\* clock value up to issuance + ttl and to None at every later one.
C7_ActionTokenValidUntilExpiry ==
  \A t \in ActionTokens :
    (call.op = "deserialize_token" /\ call.token = t.tok) =>
      /\ t.tok.exp \in {t.iat + x : x \in Expirations}
      /\ clock <= t.tok.exp => call.ret = t.issuer
      /\ clock > t.tok.exp => call.ret = NoUser

\* C8: deserialize_token returns None for every token that is malformed,
\* badly signed, expired or whose payload carries no e-mail address, and it
\* returns nothing but None or a stored identity.
Unusable(token, now) ==
  \/ token.form # "jws"
  \/ token.sig # "good"
  \/ token.exp < now
  \/ token.payload.type # "dict"
  \/ token.payload.user_email = None

C8_DeserializeFailsClosed ==
  call.op = "deserialize_token" =>
    /\ call.ret \in Ids(users) \cup {NoUser}
    /\ Unusable(call.token, clock) => call.ret = NoUser

\* C9: find_by_identity returns the identity whose stored username is the
\* lowercase form of the argument, the argument being in another letter
\* case, and the identity whose e-mail address is the argument.
C9_FindByIdentityIgnoresCase ==
  call.op = "find_by_identity" =>
    \A u \in Ids(users) :
      (\/ /\ call.identity # None
          /\ users[u].username # None
          /\ call.identity # users[u].username
          /\ Lower(call.identity) = users[u].username
       \/ call.identity = users[u].email)
        => call.ret = u

\* C10: after n >= 1 calls of update_activity_tracking on an identity,
\* sign_in_count has grown by n, the current sign-in fields hold the time and
\* address of the n-th call and the last sign-in fields hold what the current
\* ones held just before it: those of call n-1, or the initial ones.
SignIns(u) == SelectSeq(log, LAMBDA e : e.user = u)

C10_ActivityTrackingShifts ==
  \A u \in Ids(users) :
    LET calls == SignIns(u)
        n == Len(calls)
    IN n >= 1 =>
         /\ users[u].sign_in_count = n
         /\ users[u].current_sign_in_on = calls[n].on
         /\ users[u].current_sign_in_ip = calls[n].ip
         /\ users[u].last_sign_in_on = IF n >= 2 THEN calls[n - 1].on ELSE -1
         /\ users[u].last_sign_in_ip = IF n >= 2 THEN calls[n - 1].ip ELSE None

C10_Witness ==
  \E u \in Ids(users) :
    /\ Len(SignIns(u)) >= 2
    /\ users[u].last_sign_in_on # users[u].current_sign_in_on
    /\ users[u].last_sign_in_ip # users[u].current_sign_in_ip
    /\ users[u].last_sign_in_ip # None

\* C11: for an identity whose password was set from a non-empty password p,
\* authenticated(with_password=True, password=x) is True when x = p and
\* False for every other x.
C11_OnlyThePasswordAuthenticates ==
  (/\ call.op = "authenticated"
   /\ call.with_password
   /\ log[call.user] # EmptyStr)
    => /\ call.password = log[call.user] => call.ret = "True"
       /\ call.password # log[call.user] => call.ret = "False"

\* C12: encrypt_password('') yields the absent credential, and for an
\* identity whose credential is absent authenticated(with_password=True,
\* password=x) returns False for every x and does not raise.
C12_AbsentCredentialNeverAuthenticates ==
  /\ \A u \in Ids(users) :
       (u \in DOMAIN log /\ log[u] = EmptyStr) => users[u].password = NoHash
  /\ (/\ call.op = "authenticated"
      /\ call.with_password
      /\ users[call.user].password = NoHash)
       => call.ret = "False"

\* C13: an unexpired token issued by u.serialize_token() deserializes to u
\* and to no other identity, whatever usernames the store holds.
C13_TokenResolvesToItsIssuer ==
  call.op = "deserialize_token" =>
    \A t \in ActionTokens :
      (call.token = t.tok /\ ~(t.tok.exp < clock)) => call.ret = t.issuer

\* C14: is_last_admin returns False for every identity that is not an admin,
\* whatever the new role and the new activation.
C14_OnlyAdminsAreVetoed ==
  (call.op = "is_last_admin" /\ users[call.user].role # "admin")
    => call.ret = FALSE

\* C17: is_last_admin returns False when neither (a) an admin gets a
\* non-admin role nor (b) an active identity is deactivated; when (a) or (b)
\* holds, for every new_active that indicates deactivation, its result is the
\* one the two counts give.
C17_EngagesOnRoleOrActivationChange ==
  call.op = "is_last_admin" =>
    LET a == users[call.user].role = "admin" /\ call.new_role # "admin"
        b == users[call.user].active = TRUE /\ IndicatesDeactivation(call.new_active)
    IN /\ ~(a \/ b) => call.ret = FALSE
       /\ (a \/ b) => call.ret = (admin_count(users) = 1 \/ active_count(users) = 1)

\* C15: when two requests have run update_activity_tracking for the same
\* identity, each on its own copy, and both have committed, sign_in_count
\* has grown by 2 and the last sign-in fields hold the time and address of
\* the sign-in that committed first.
C15_ConcurrentSignInsBothCount ==
  (\A r \in DOMAIN req : req[r].pc = "done") =>
    /\ users[SignInTarget].sign_in_count = 2
    /\ users[SignInTarget].last_sign_in_on = log[1].on
    /\ users[SignInTarget].last_sign_in_ip = log[1].ip

\* C16: resolving an action token does not consume it: every resolution of
\* the same token within its validity window returns the same identity, also
\* when that identity's password was changed in between.
C16_TokenReuseReturnsSameIdentity ==
  \A i, j \in DOMAIN log :
    (/\ log[i].token = log[j].token
     /\ ~(log[i].token.exp < log[i].on)
     /\ ~(log[j].token.exp < log[j].on))
      => log[i].ret = log[j].ret

\* C18: every stored username is absent or its own lowercase form and no two
\* identities share one: a creation with username X stores lower(X), and a
\* creation whose lowercased username is already stored is rejected.
C18_UsernamesLowercaseAndUnique ==
  /\ \A u \in Ids(users) :
       users[u].username = None \/ users[u].username = Lower(users[u].username)
  /\ \A u, v \in Ids(users) :
       (u # v /\ users[u].username # None) => users[u].username # users[v].username
  /\ (call.op = "create" /\ call.ret # NoUser) =>
       users[call.ret].username =
         IF call.username = None THEN None ELSE Lower(call.username)
  /\ (/\ call.op = "create"
      /\ call.username # None
      /\ \E i \in Ids(users) \ {call.ret} : users[i].username = Lower(call.username))
       => call.ret = NoUser

C18_Witness ==
  /\ call.op = "create"
  /\ call.ret = NoUser
  /\ call.username # None
  /\ call.username # Lower(call.username)
  /\ \E i \in Ids(users) : users[i].username = Lower(call.username)
  /\ \A i \in Ids(users) : users[i].email # call.email

====
